---- MODULE Spec2Model ----
(***************************************************************************)
(* Model of the array-indexed Merkle tree of src/src/merkle_tree.rs and    *)
(* the index arithmetic of src/src/binary_tree.rs.                         *)
(*                                                                         *)
(* Byte strings (Vec<u8>) are sequences of byte atoms.  A byte atom is     *)
(* either a literal byte [b |-> 0..255, pre |-> <<>>] or one whole SHA3    *)
(* digest block [b |-> -1, pre |-> v], where v is the byte string that was *)
(* hashed: the hash is a free constructor, hence collision free.           *)
(* Hexadecimal strings (String) are sequences of character atoms: a        *)
(* literal character [c |-> "a", pre |-> <<>>], or the 64 lower-case       *)
(* characters that hex::encode emits for a digest block,                   *)
(* [c |-> "#", pre |-> v].                                                  *)
(***************************************************************************)
EXTENDS Integers, Sequences, FiniteSets, TLC

\* Largest depth passed to MerkleTree::new.
MaxDepth == 3
\* Largest number of calls (set, rebalance, proof) made on one tree.
MaxOps == 2

\* 2^16: a u32 is held as two 16-bit halves, [hi, lo] = hi * 2^16 + lo
\* (2^32 itself is not a number the model checker can hold).
Half == 65536
\* Number of bits of u32.
U32Bits == 32

(***************************************************************************)
(* Bytes, characters, hexadecimal                                          *)
(***************************************************************************)
Byte(n) == [b |-> n, pre |-> <<>>]

Chr(s) == [c |-> s, pre |-> <<>>]

\* A String literal, given as the tuple of its characters.
Str(t) == [i \in 1..Len(t) |-> Chr(t[i])]

LowerDigits == <<"0","1","2","3","4","5","6","7","8","9","a","b","c","d","e","f">>

UpperDigits == <<"0","1","2","3","4","5","6","7","8","9","A","B","C","D","E","F">>

\* Value of one hexadecimal character, -1 when it is not one (hex crate, val()).
HexVal(ch) ==
  IF \E i \in 1..16 : LowerDigits[i] = ch
  THEN (CHOOSE i \in 1..16 : LowerDigits[i] = ch) - 1
  ELSE IF \E i \in 1..16 : UpperDigits[i] = ch
       THEN (CHOOSE i \in 1..16 : UpperDigits[i] = ch) - 1
       ELSE -1

\* hex::encode: two lower-case characters per byte.
RECURSIVE hex_encode(_)
hex_encode(v) ==
  IF v = <<>> THEN <<>>
  ELSE LET h == Head(v)
       IN  (IF h.b = -1
            THEN << [c |-> "#", pre |-> h.pre] >>
            ELSE << Chr(LowerDigits[(h.b \div 16) + 1]),
                    Chr(LowerDigits[(h.b % 16) + 1]) >>)
           \o hex_encode(Tail(v))

\* Number of characters of a String (a digest block stands for 64).
RECURSIVE StrLen(_)
StrLen(s) ==
  IF s = <<>> THEN 0
  ELSE (IF Head(s).c = "#" THEN 64 ELSE 1) + StrLen(Tail(s))

\* Decoding of the pairs of an even-length string; digest blocks are kept
\* whole (every string of the model has them at even offsets).
RECURSIVE DecodePairs(_)
DecodePairs(s) ==
  IF s = <<>> THEN [ok |-> TRUE, bytes |-> <<>>]
  ELSE IF Head(s).c = "#"
  THEN LET r == DecodePairs(Tail(s))
       IN  [ok |-> r.ok,
            bytes |-> IF r.ok THEN << [b |-> -1, pre |-> Head(s).pre] >> \o r.bytes
                      ELSE <<>>]
  ELSE IF Len(s) < 2 \/ s[2].c = "#" \/ HexVal(s[1].c) < 0 \/ HexVal(s[2].c) < 0
  THEN [ok |-> FALSE, bytes |-> <<>>]
  ELSE LET r == DecodePairs(SubSeq(s, 3, Len(s)))
       IN  [ok |-> r.ok,
            bytes |-> IF r.ok
                      THEN << Byte(16 * HexVal(s[1].c) + HexVal(s[2].c)) >> \o r.bytes
                      ELSE <<>>]

\* Vec::<u8>::from_hex: Err on odd length or on a non-hexadecimal character.
FromHex(s) ==
  IF StrLen(s) % 2 # 0 THEN [ok |-> FALSE, bytes |-> <<>>] ELSE DecodePairs(s)

\* MerkleTree::hex_to_bytes: strips one leading "0x", then decodes.
hex_to_bytes(s) ==
  IF Len(s) >= 2 /\ s[1].c = "0" /\ s[2].c = "x"
  THEN FromHex(SubSeq(s, 3, Len(s)))
  ELSE FromHex(s)

\* String::from("0x") + &hex::encode(v)
Hex0x(v) == Str(<<"0", "x">>) \o hex_encode(v)

concatenate_hashes(left, right) == left \o right

\* Sha3_256 as a free constructor: one digest block naming its input.
hash(v) == << [b |-> -1, pre |-> v] >>

(***************************************************************************)
(* Index arithmetic                                                        *)
(***************************************************************************)
get_left_child(index) == 2 * index

get_right_child(index) == (2 * index) + 1

get_parent(index) == index \div 2

\* u32 subtraction a - b for a, b < 2^16: "panic" with overflow checks on
\* (debug build), wrapping modulo 2^32 without them (release build).
U32Sub(a, b, checks) ==
  IF a >= b THEN [ok |-> TRUE, hi |-> 0, lo |-> a - b]
  ELSE IF checks THEN [ok |-> FALSE, hi |-> 0, lo |-> 0]
       ELSE [ok |-> TRUE, hi |-> Half - 1, lo |-> Half + (a - b)]

\* 2u32.pow(e) for e = [hi, lo]: overflows for e >= 32, and every wrapped
\* product is then 0 modulo 2^32.
U32Pow2(e, checks) ==
  IF e.hi = 0 /\ e.lo < U32Bits THEN [ok |-> TRUE, v |-> 2 ^ e.lo]
  ELSE IF checks THEN [ok |-> FALSE, v |-> 0]
       ELSE [ok |-> TRUE, v |-> 0]

(***************************************************************************)
(* MerkleTree: construction                                                *)
(***************************************************************************)
\* The node array, a Vec indexed from 0.
Slots(rep) == Cardinality(DOMAIN rep)

\* The loop over one level with its last node left out (i..end-1 taken as
\* inclusive bounds): that node keeps the empty Vec it was allocated with.
NewLevel_skips_last(rep, i, end, seen) ==
  [j \in DOMAIN rep |->
     IF i <= j /\ j < end - 1
     THEN hash(concatenate_hashes(rep[get_left_child(j)], rep[get_right_child(j)]))
     ELSE rep[j]]

\* The inner for loop of MerkleTree::new over the nodes i..end of one level;
\* seen is the level's cache, a set of <<hex of the concatenation, digest>>.
RECURSIVE NewLevel(_, _, _, _)
NewLevel(rep, i, end, seen) ==
  IF i >= end THEN rep
  ELSE LET left_child_hash   == rep[get_left_child(i)]
           right_child_hash  == rep[get_right_child(i)]
           concatenation     == concatenate_hashes(left_child_hash, right_child_hash)
           hex_concatenation == hex_encode(concatenation)
           hit    == \E p \in seen : p[1] = hex_concatenation
           hashed == IF hit
                     THEN (CHOOSE p \in seen : p[1] = hex_concatenation)[2]
                     ELSE hash(concatenation)
           seen2  == IF hit THEN seen ELSE seen \cup {<<hex_concatenation, hashed>>}
       IN  NewLevel([rep EXCEPT ![i] = hashed], i + 1, end, seen2)

\* The while loop of MerkleTree::new: levels current_depth, ..., 1.
RECURSIVE NewLevels(_, _)
NewLevels(rep, current_depth) ==
  IF current_depth > 0
  THEN NewLevels(NewLevel(rep, 2 ^ current_depth, 2 ^ (current_depth + 1), {}),
                 current_depth - 1)
  ELSE rep

\* MerkleTree::new(depth, initial_leaf), for a leaf that decodes (the
\* constructor panics otherwise) and depth < 32.
New(d, initial_leaf) ==
  LET as_bytes == hex_to_bytes(initial_leaf).bytes
  IN  IF d = 0 THEN (0 :> <<>>) @@ (1 :> as_bytes)
      ELSE IF d = 1
      THEN (0 :> <<>>) @@ (1 :> hash(concatenate_hashes(as_bytes, as_bytes)))
           @@ (2 :> as_bytes) @@ (3 :> as_bytes)
      ELSE LET empty  == [i \in 0..(2 ^ d - 1) |-> <<>>]
               leaves == [i \in 0..(2 ^ d - 1) |->
                            IF i >= 2 ^ (d - 1) THEN as_bytes ELSE empty[i]]
               levels == NewLevels(leaves, d - 2)
               hashed == hash(concatenate_hashes(levels[get_left_child(1)],
                                                 levels[get_right_child(1)]))
           IN  [levels EXCEPT ![1] = hashed]

(***************************************************************************)
(* MerkleTree: queries and mutation                                        *)
(***************************************************************************)
root(rep) == Hex0x(rep[1])

\* MerkleTree::leaf_range: 2u32.pow(depth - 1) .. representation.len().
leaf_range(rep, d, checks) ==
  LET e == U32Sub(d, 1, checks)
      p == U32Pow2(e, checks)
  IN  IF ~e.ok \/ ~p.ok THEN [ok |-> FALSE, lo |-> 0, hi |-> 0]
      ELSE [ok |-> TRUE, lo |-> p.v, hi |-> Slots(rep)]

\* The while loop of MerkleTree::rebalance. writes lists the slots assigned,
\* in order; an index past the end of the Vec panics.
RECURSIVE RebalanceLoop(_, _, _)
RebalanceLoop(rep, current, writes) ==
  IF current > 0
  THEN LET parent == get_parent(current)
       IN  IF get_left_child(parent) \notin DOMAIN rep
              \/ get_right_child(parent) \notin DOMAIN rep
           THEN [ok |-> FALSE, rep |-> rep, writes |-> writes]
           ELSE LET left_child_hash  == rep[get_left_child(parent)]
                    right_child_hash == rep[get_right_child(parent)]
                    concatenation == concatenate_hashes(left_child_hash, right_child_hash)
                    hashed == hash(concatenation)
                IN  RebalanceLoop([rep EXCEPT ![parent] = hashed], parent,
                                  Append(writes, parent))
  ELSE [ok |-> TRUE, rep |-> rep, writes |-> writes]

\* rebalance with the walk started one level too high: the parent of the
\* changed node is never recomputed.
rebalance_from_parent(rep, index) == RebalanceLoop(rep, get_parent(index), <<>>)

rebalance(rep, index) == RebalanceLoop(rep, index, <<>>)

\* set with the leaf check made after the write and the rebalance.
set_checks_late(rep, d, index, value, checks) ==
  LET range   == leaf_range(rep, d, checks)
      decoded == hex_to_bytes(value)
  IN  IF ~range.ok
      THEN [ok |-> FALSE, why |-> "overflow", rep |-> rep, writes |-> <<>>]
      ELSE IF ~decoded.ok
      THEN [ok |-> FALSE, why |-> "not hex", rep |-> rep, writes |-> <<>>]
      ELSE IF index \notin DOMAIN rep
      THEN [ok |-> FALSE, why |-> "non leaf", rep |-> rep, writes |-> <<>>]
      ELSE LET r == rebalance([rep EXCEPT ![index] = decoded.bytes], index)
           IN  IF ~(range.lo <= index /\ index < range.hi)
               THEN [ok |-> FALSE, why |-> "non leaf", rep |-> r.rep,
                     writes |-> <<index>> \o r.writes]
               ELSE [ok |-> r.ok, why |-> IF r.ok THEN "" ELSE "out of bounds",
                     rep |-> r.rep, writes |-> <<index>> \o r.writes]

\* MerkleTree::set: the array as the call leaves it, also when it panics.
set(rep, d, index, value, checks) ==
  LET range   == leaf_range(rep, d, checks)
      decoded == hex_to_bytes(value)
  IN  IF ~range.ok
      THEN [ok |-> FALSE, why |-> "overflow", rep |-> rep, writes |-> <<>>]
      ELSE IF ~(range.lo <= index /\ index < range.hi)
      THEN [ok |-> FALSE, why |-> "non leaf", rep |-> rep, writes |-> <<>>]
      ELSE IF ~decoded.ok
      THEN [ok |-> FALSE, why |-> "not hex", rep |-> rep, writes |-> <<>>]
      ELSE LET r == rebalance([rep EXCEPT ![index] = decoded.bytes], index)
           IN  [ok |-> r.ok, why |-> IF r.ok THEN "" ELSE "out of bounds",
                rep |-> r.rep, writes |-> <<index>> \o r.writes]

(***************************************************************************)
(* MerkleTree: proofs                                                      *)
(***************************************************************************)
\* The while loop of MerkleTree::proof.
RECURSIVE ProofLoop(_, _, _)
ProofLoop(rep, current, path) ==
  IF current > 1
  THEN LET parent     == get_parent(current)
           handedness == IF current % 2 = 0 THEN "Left" ELSE "Right"
           sibling_hash_vec == IF handedness = "Left"
                               THEN rep[get_right_child(parent)]
                               ELSE rep[get_left_child(parent)]
           sibling_hash_hex == Hex0x(sibling_hash_vec)
       IN  ProofLoop(rep, parent,
                     Append(path, [side |-> handedness, sibling |-> sibling_hash_hex]))
  ELSE path

\* The array index that leaf_range().enumerate() pairs with leaf_index.
ProofIndex(rep, d, leaf_index, checks) ==
  LET range == leaf_range(rep, d, checks)
  IN  IF range.ok /\ range.lo + leaf_index < range.hi
      THEN [ok |-> TRUE, index |-> range.lo + leaf_index]
      ELSE [ok |-> FALSE, index |-> 0]

\* proof with the walk run down to the sentinel (while current > 0).
proof_to_sentinel(rep, d, leaf_index, checks) ==
  LET at == ProofIndex(rep, d, leaf_index, checks)
  IN  IF at.ok
      THEN [ok |-> TRUE,
            path |-> IF at.index > 0
                     THEN Append(ProofLoop(rep, at.index, <<>>),
                                 [side |-> "Right", sibling |-> Hex0x(rep[0])])
                     ELSE <<>>]
      ELSE [ok |-> FALSE, path |-> <<>>]

\* MerkleTree::proof(leaf_index): the path, or a panic.
proof(rep, d, leaf_index, checks) ==
  LET at == ProofIndex(rep, d, leaf_index, checks)
  IN  IF at.ok THEN [ok |-> TRUE, path |-> ProofLoop(rep, at.index, <<>>)]
      ELSE [ok |-> FALSE, path |-> <<>>]

\* One step of the fold of MerkleTree::verify.
VerifyStep(acc, step) ==
  LET hash_bytes_of_current == hex_to_bytes(acc)
      hash_bytes_of_sibling == hex_to_bytes(step.sibling)
  IN  IF ~hash_bytes_of_current.ok \/ ~hash_bytes_of_sibling.ok
      THEN [ok |-> FALSE, acc |-> <<>>]
      ELSE [ok |-> TRUE,
            acc |-> Hex0x(hash(
              IF step.side = "Left"
              THEN concatenate_hashes(hash_bytes_of_current.bytes,
                                      hash_bytes_of_sibling.bytes)
              ELSE concatenate_hashes(hash_bytes_of_sibling.bytes,
                                      hash_bytes_of_current.bytes)))]

RECURSIVE VerifyFold(_, _)
VerifyFold(path, acc) ==
  IF path = <<>> THEN [ok |-> TRUE, acc |-> acc]
  ELSE LET s == VerifyStep(acc, Head(path))
       IN  IF s.ok THEN VerifyFold(Tail(path), s.acc) ELSE s

\* MerkleTree::verify(path, leaf_hash): the computed root, or a panic.
verify(path, leaf_hash) == VerifyFold(path, leaf_hash)

(***************************************************************************)
(* The state machine: one tree, its callers' inputs                        *)
(***************************************************************************)
VARIABLES
  depth,           \* MerkleTree.depth
  representation,  \* MerkleTree.representation, a function on 0..len-1
  checks,          \* TRUE: built with overflow checks (debug); FALSE: without
  last,            \* the most recent call: [op, ok, why, index]
  ops              \* number of calls made so far

vars == <<depth, representation, checks, last, ops>>

LeafAB == Str(<<"0", "x", "a", "b">>)

LeafCD == Str(<<"C", "D">>)

NotHex == Str(<<"0", "x", "g", "1">>)

\* initial_leaf of MerkleTree::new: with and without prefix, either case.
InitialLeaves == {LeafAB, LeafCD}

\* A digest its caller computed: H(0xcd ++ 0xab).
Crafted == Hex0x(hash(<<Byte(205), Byte(171)>>))

\* value of MerkleTree::set: two byte strings, a digest, and a string that is
\* not hexadecimal.
SetValues == {Str(<<"c", "d">>), Str(<<"0", "x", "A", "B">>), Crafted, NotHex}

Depths == 0..MaxDepth

\* index of MerkleTree::set: every slot of the array and one past its end.
SetIndices(rep) == 0..Slots(rep)

\* index of MerkleTree::rebalance: the sentinel, the root, the first and the
\* last slot of the lower half of the array, and one past its end.
RebalanceIndices(rep) ==
  {0, 1, Slots(rep) \div 2, Slots(rep) - 1, Slots(rep)}

\* leaf_index of MerkleTree::proof: offsets up to one past half of the array.
Offsets(rep) == 0..((Slots(rep) \div 2) + 1)

Init ==
  /\ depth \in Depths
  /\ checks \in BOOLEAN
  /\ \E initial_leaf \in InitialLeaves : representation = New(depth, initial_leaf)
  /\ last = [op |-> "new", ok |-> TRUE, why |-> "", index |-> 0]
  /\ ops = 0

Set(index, value) ==
  /\ ops < MaxOps
  /\ LET r == set(representation, depth, index, value, checks)
     IN  /\ representation' = r.rep
         /\ last' = [op |-> "set", ok |-> r.ok, why |-> r.why, index |-> index]
  /\ ops' = ops + 1
  /\ UNCHANGED <<depth, checks>>

Rebalance(index) ==
  /\ ops < MaxOps
  /\ LET r == rebalance(representation, index)
     IN  /\ representation' = r.rep
         /\ last' = [op |-> "rebalance", ok |-> r.ok,
                     why |-> IF r.ok THEN "" ELSE "out of bounds", index |-> index]
  /\ ops' = ops + 1
  /\ UNCHANGED <<depth, checks>>

Proof(leaf_index) ==
  /\ ops < MaxOps
  /\ LET r == proof(representation, depth, leaf_index, checks)
     IN  last' = [op |-> "proof", ok |-> r.ok,
                  why |-> IF r.ok THEN "" ELSE "no such leaf", index |-> leaf_index]
  /\ ops' = ops + 1
  /\ UNCHANGED <<depth, representation, checks>>

Next ==
  \/ \E index \in SetIndices(representation), value \in SetValues : Set(index, value)
  \/ \E index \in RebalanceIndices(representation) : Rebalance(index)
  \/ \E leaf_index \in Offsets(representation) : Proof(leaf_index)

Spec == Init /\ [][Next]_vars

(***************************************************************************)
(* Notions the properties are stated in                                    *)
(***************************************************************************)
\* i and its ancestors up to the root, index 1.
RootPath(i) == {j \in 1..i : \E n \in 0..i : j = i \div (2 ^ n)}

\* A slot that holds a node without children in the array.
IsLeafSlot(rep, i) == i >= 1 /\ i \in DOMAIN rep /\ get_left_child(i) \notin DOMAIN rep

\* Bit j (from 0, least significant first) of k.
Bit(k, j) == (k \div (2 ^ j)) % 2

(***************************************************************************)
(* C1: in a tree of depth d >= 2, after construction and after every       *)
(* completed call, every internal node i in [1, 2^(d-1)) holds             *)
(* H(nodes[2i] ++ nodes[2i+1]), left child first.                          *)
(***************************************************************************)
C1_NodeInvariant ==
  depth >= 2 =>
    \A i \in 1..(2 ^ (depth - 1) - 1) :
      representation[i] = hash(representation[2 * i] \o representation[2 * i + 1])

\* Two sets have completed on a depth-3 tree and its leaves differ.
C1_Witness ==
  /\ depth = 3 /\ ops = 2 /\ last.op = "set" /\ last.ok
  /\ representation[4] # representation[6]
  /\ representation[2] # representation[3]

(***************************************************************************)
(* C5: a set that is rejected because the index is no leaf or the value is *)
(* not hexadecimal leaves every slot of the array, and the depth, as they  *)
(* were before the call.                                                   *)
(***************************************************************************)
C5_RejectedSetChangesNothing ==
  [][(last'.op = "set" /\ ~last'.ok /\ last'.why \in {"non leaf", "not hex"})
       => (representation' = representation /\ depth' = depth)]_vars

\* A set on a leaf of a depth-3 tree was rejected for its value, after a
\* set that went through.
C5_Witness ==
  /\ depth = 3 /\ ops = 2
  /\ last.op = "set" /\ ~last.ok /\ last.why = "not hex" /\ last.index >= 4
  /\ \E i \in 4..7 : representation[i] # representation[4]

(***************************************************************************)
(* C7, as stated: for a tree of depth d, the path proof(k) of every offset *)
(* k that resolves to a leaf has exactly d entries.                        *)
(***************************************************************************)
C7_AsStated ==
  \A k \in Offsets(representation) :
    LET p  == proof(representation, depth, k, checks)
        at == ProofIndex(representation, depth, k, checks)
    IN  (p.ok /\ IsLeafSlot(representation, at.index)) => Len(p.path) = depth

(***************************************************************************)
(* C7, amended: for a tree of depth d >= 2 the path proof(k) of every leaf *)
(* offset k has exactly d - 1 entries, one per level above the leaves; in  *)
(* the two special layouts (depth 0 and depth 1) it has d entries for      *)
(* every offset that resolves to a leaf.                                   *)
(***************************************************************************)
C7_PathLength ==
  \A k \in Offsets(representation) :
    LET p  == proof(representation, depth, k, checks)
        at == ProofIndex(representation, depth, k, checks)
    IN  (p.ok /\ IsLeafSlot(representation, at.index))
          => Len(p.path) = IF depth >= 2 THEN depth - 1 ELSE depth

\* proof(3) was called on a depth-3 tree and returned two entries.
C7_Witness ==
  /\ depth = 3 /\ last.op = "proof" /\ last.ok /\ last.index = 3
  /\ Len(proof(representation, depth, 3, checks).path) = 2

(***************************************************************************)
(* C2: round trip.  In every reachable tree state, for every offset k that *)
(* proof accepts, verify(proof(k), hex of the digest stored at that leaf)  *)
(* equals root().                                                          *)
(***************************************************************************)
C2_RoundTrip ==
  \A k \in Offsets(representation) :
    LET p  == proof(representation, depth, k, checks)
        at == ProofIndex(representation, depth, k, checks)
        v  == verify(p.path, Hex0x(representation[at.index]))
    IN  p.ok => (v.ok /\ v.acc = root(representation))

(***************************************************************************)
(* C3: negative verification.  In every reachable tree state, for every    *)
(* offset k that resolves to a leaf and every digest w other than the one  *)
(* stored at that leaf, verify(proof(k), w) differs from root().           *)
(***************************************************************************)
\* Digests a verifier may be handed: the callers' values and the root.
Candidates(rep) == InitialLeaves \cup SetValues \cup {root(rep)}

C3_NegativeVerification ==
  \A k \in Offsets(representation) :
    LET p  == proof(representation, depth, k, checks)
        at == ProofIndex(representation, depth, k, checks)
    IN  (p.ok /\ IsLeafSlot(representation, at.index)) =>
          \A w \in Candidates(representation) :
            LET d == hex_to_bytes(w)
                v == verify(p.path, w)
            IN  (d.ok /\ d.bytes # representation[at.index])
                  => ~(v.ok /\ v.acc = root(representation))

(***************************************************************************)
(* C4: on a tree of depth d >= 1 a set that succeeds was given an index in *)
(* [2^(d-1), 2^d), and never the index of a node that has children, whose  *)
(* digest would then hold the caller's value.                              *)
(***************************************************************************)
C4_SetOnlyOnLeaves ==
  (depth >= 1 /\ last.op = "set" /\ last.ok) =>
    /\ 2 ^ (depth - 1) <= last.index /\ last.index < 2 ^ depth
    /\ get_left_child(last.index) \notin DOMAIN representation

(***************************************************************************)
(* C6: a set that succeeds on a leaf changes only the slots on the root    *)
(* path of that leaf (the leaf and its ancestors up to index 1); every     *)
(* other slot of the array holds afterwards what it held before.           *)
(***************************************************************************)
C6_SetFrame ==
  [][(last'.op = "set" /\ last'.ok /\ IsLeafSlot(representation, last'.index)) =>
       \A i \in DOMAIN representation :
         i \notin RootPath(last'.index) => representation'[i] = representation[i]]_vars

(***************************************************************************)
(* C8: for every offset k that proof accepts, entry j (from 0) of proof(k) *)
(* has side Right exactly when bit j of k is 1, and its digest is the      *)
(* sibling of the j-th node on the way from the leaf to the root.          *)
(***************************************************************************)
C8_SidesSpellOffset ==
  \A k \in Offsets(representation) :
    LET p  == proof(representation, depth, k, checks)
        at == ProofIndex(representation, depth, k, checks)
    IN  p.ok =>
          \A j \in 0..(Len(p.path) - 1) :
            LET node    == at.index \div (2 ^ j)
                sibling == IF node % 2 = 0 THEN node + 1 ELSE node - 1
            IN  /\ p.path[j + 1].side = (IF Bit(k, j) = 1 THEN "Right" ELSE "Left")
                /\ p.path[j + 1].sibling = Hex0x(representation[sibling])

(***************************************************************************)
(* C9: proof takes a zero-based offset among the leaves: offset 0 is       *)
(* accepted and resolves to the leftmost leaf, every accepted offset       *)
(* resolves to a slot that is a leaf, and every offset not smaller than    *)
(* the number of leaves is refused.                                        *)
(***************************************************************************)
LeafSlots(rep) == {i \in DOMAIN rep : IsLeafSlot(rep, i)}

C9_OffsetsAreLeaves ==
  \A k \in Offsets(representation) :
    LET at == ProofIndex(representation, depth, k, checks)
    IN  /\ k = 0 =>
             (at.ok /\ \A i \in LeafSlots(representation) : at.index <= i)
        /\ at.ok => at.index \in LeafSlots(representation)
        /\ k >= Cardinality(LeafSlots(representation)) => ~at.ok

(***************************************************************************)
(* C10: on a tree of depth 0 the leaf range is the single index 1:         *)
(* leaf_range() returns 1..2, set(1, v) with v hexadecimal succeeds and    *)
(* makes root() the hex of v, and set on any other index is rejected.      *)
(***************************************************************************)
C10_DepthZeroLeaf ==
  depth = 0 =>
    LET range == leaf_range(representation, depth, checks)
    IN  /\ range.ok /\ range.lo = 1 /\ range.hi = 2
        /\ \A index \in SetIndices(representation), value \in SetValues :
             LET r == set(representation, depth, index, value, checks)
                 d == hex_to_bytes(value)
             IN  /\ (index = 1 /\ d.ok) => (r.ok /\ root(r.rep) = Hex0x(d.bytes))
                 /\ index # 1 => ~r.ok

(***************************************************************************)
(* C11: construction yields the uniform Merkle root.  With u(0) the        *)
(* decoded leaf and u(n+1) = H(u(n) ++ u(n)), root() after new(d, leaf) is *)
(* 0x + hex of u(0) for d = 0, of u(1) for d = 1 and of u(d-1) for d >= 2; *)
(* every node with children holds the hash of its two children, as an      *)
(* uncached computation gives, and every leaf slot holds the decoded leaf. *)
(***************************************************************************)
RECURSIVE Uniform(_, _)
Uniform(u0, n) ==
  IF n = 0 THEN u0
  ELSE LET below == Uniform(u0, n - 1) IN hash(below \o below)

C11_UniformRoot ==
  last.op = "new" =>
    \E initial_leaf \in InitialLeaves :
      LET u0 == hex_to_bytes(initial_leaf).bytes
      IN  /\ root(representation)
               = Hex0x(Uniform(u0, IF depth >= 2 THEN depth - 1 ELSE depth))
          /\ \A i \in LeafSlots(representation) : representation[i] = u0
          /\ \A i \in DOMAIN representation :
               (i >= 1 /\ ~IsLeafSlot(representation, i)) =>
                 representation[i]
                   = hash(representation[2 * i] \o representation[2 * i + 1])

\* A depth-3 tree right after its construction from the leaf "CD".
C11_Witness ==
  /\ last.op = "new" /\ ops = 0 /\ depth = 3
  /\ representation[7] = <<Byte(205)>>
  /\ representation[3] # <<>>

(***************************************************************************)
(* BinaryTree: index arithmetic of src/src/binary_tree.rs                  *)
(***************************************************************************)
\* Largest depth handed to get_node_index; indices run up to 2^(this + 1).
MaxIndexDepth == 5

\* u32::ilog2 for n >= 1: floor of the binary logarithm.
RECURSIVE ILog2(_)
ILog2(n) == IF n < 2 THEN 0 ELSE 1 + ILog2(n \div 2)

\* BinaryTree::get_node_index(depth, offset), below the u32 range's end.
get_node_index(d, offset) == (2 ^ d) + offset

\* get_depth_and_offset with the "+ 1" of the node count forgotten.
get_depth_and_offset_of_count(index) ==
  IF index = 0 \/ index = 1 THEN [ok |-> FALSE, depth |-> 0, offset |-> 0]
  ELSE LET node_count == index - 1
           d == ILog2(node_count)
       IN  [ok |-> TRUE, depth |-> d, offset |-> index - (2 ^ d)]

\* BinaryTree::get_depth_and_offset(index): panics for index 0.
get_depth_and_offset(index) ==
  IF index = 0 THEN [ok |-> FALSE, depth |-> 0, offset |-> 0]
  ELSE LET node_count == index - 1
           d == ILog2(node_count + 1)
           start_index_at_depth == 2 ^ d
       IN  [ok |-> TRUE, depth |-> d, offset |-> index - start_index_at_depth]

\* BinaryTree::new(0): [None, Some(0)].
BinaryTreeNew == (0 :> <<>>) @@ (1 :> <<0>>)

\* A BinaryTree and the latest call of its two index functions, recorded
\* in last as [op, ok, d, o, index].
InitIndex ==
  /\ depth = 0
  /\ representation = BinaryTreeNew
  /\ checks \in BOOLEAN
  /\ last = [op |-> "new", ok |-> TRUE, d |-> 0, o |-> 0, index |-> 1]
  /\ ops = 0

\* get_node_index(d, offset): offsets of the level and one past them.
GetNodeIndex(d, offset) ==
  /\ last' = [op |-> "get_node_index", ok |-> TRUE, d |-> d, o |-> offset,
              index |-> get_node_index(d, offset)]
  /\ UNCHANGED <<depth, representation, checks, ops>>

GetDepthAndOffset(index) ==
  /\ LET r == get_depth_and_offset(index)
     IN  last' = [op |-> "get_depth_and_offset", ok |-> r.ok, d |-> r.depth,
                  o |-> r.offset, index |-> index]
  /\ UNCHANGED <<depth, representation, checks, ops>>

NextIndex ==
  \/ \E d \in 0..MaxIndexDepth, offset \in 0..(2 ^ MaxIndexDepth) :
       offset <= 2 ^ d /\ GetNodeIndex(d, offset)
  \/ \E index \in 0..(2 ^ (MaxIndexDepth + 1) - 1) : GetDepthAndOffset(index)

SpecIndex == InitIndex /\ [][NextIndex]_vars

(***************************************************************************)
(* C12: indexing is a bijection between the pairs (d, o) with              *)
(* 0 <= o < 2^d and the indices >= 1:                                      *)
(* get_depth_and_offset(get_node_index(d, o)) = (d, o); for every          *)
(* index >= 1, get_depth_and_offset returns such a pair and get_node_index *)
(* of it is index; and get_depth_and_offset(0) fails.                      *)
(***************************************************************************)
C12_IndexBijection ==
  /\ (last.op = "get_node_index" /\ last.o < 2 ^ last.d) =>
       LET r == get_depth_and_offset(last.index)
       IN  r.ok /\ r.depth = last.d /\ r.offset = last.o
  /\ (last.op = "get_depth_and_offset" /\ last.index >= 1) =>
       /\ last.ok
       /\ 0 <= last.o /\ last.o < 2 ^ last.d
       /\ get_node_index(last.d, last.o) = last.index
  /\ (last.op = "get_depth_and_offset" /\ last.index = 0) => ~last.ok

\* get_depth_and_offset(15) returned (3, 7).
C12_Witness ==
  last.op = "get_depth_and_offset" /\ last.ok /\ last.index = 15
    /\ last.d = 3 /\ last.o = 7

(***************************************************************************)
(* C13: slot 0 of the node array is reserved and never used: after         *)
(* construction and any sequence of set and rebalance calls it still holds *)
(* the empty value it was created with.                                    *)
(***************************************************************************)
C13_SlotZeroEmpty == representation[0] = <<>>

(***************************************************************************)
(* C14: rebalance started at a leaf of a depth-d tree terminates after     *)
(* exactly d hash computations, each of which recomputes one ancestor of   *)
(* the leaf from its two children, the root being the last one.            *)
(***************************************************************************)
C14_RebalanceWalk ==
  \A i \in LeafSlots(representation) :
    LET r == rebalance(representation, i)
    IN  /\ r.ok
        /\ Len(r.writes) = depth
        /\ \A j \in 1..Len(r.writes) :
             /\ r.writes[j] \in RootPath(i) \ {i}
             /\ r.rep[r.writes[j]]
                  = hash(r.rep[2 * r.writes[j]] \o r.rep[2 * r.writes[j] + 1])
        /\ Len(r.writes) > 0 => r.writes[Len(r.writes)] = 1

====
